---- MODULE Spec2Model ----
(***************************************************************************)
(* Model of backup_tui (src/main.go): a Bubble Tea program whose Update    *)
(* dispatches systemctl / journalctl commands in background tasks and      *)
(* consumes their results as messages.                                     *)
(*                                                                         *)
(* Strings are sequences of tokens (a token is a word, a blank or "\n"),   *)
(* so that concatenation, firstLine, TrimSpace and HasSuffix are computed  *)
(* and not assumed.                                                        *)
(***************************************************************************)
EXTENDS Naturals, Sequences, FiniteSets

VARIABLES
    m,          \* the model value the event loop currently holds
    ops,        \* one record per asyncRun call: its background task
    evalOrder,  \* how the build orders `m` and `m.asyncRun(..)` in a return
    quitKey,    \* a quit key has been handled by Update
    quitCmd,    \* a tea.Quit command is in flight (its message not yet consumed)
    running,    \* the event loop has not returned
    tickStreams, \* tick commands in flight (a tickMsg not yet consumed, or a timer)
    idleTick,   \* since the last action key, Update scheduled a tick while not loading
    trim        \* trimLines on its own: its arguments and its results

vars == <<m, ops, evalOrder, quitKey, quitCmd, running, tickStreams, idleTick, trim>>

----------------------------------------------------------------------------
\* Bounds of the model.

MaxOps == 2

\* trimLines on its own: the longest text and the largest n tried.
MaxLen == 4
MaxN == 3

----------------------------------------------------------------------------
\* Constants of the program.

serviceName == <<"nightly-onedrive-backup", ".service">>
timerName == <<"nightly-onedrive-backup", ".timer">>

\* newModel's list items, in order; the list cursor is an index into it.
items == <<timerName, serviceName>>

\* The number of lines View keeps of the last output.
ViewLines == 20

NoError == "<nil>"
NoMsg == [type |-> "none", tag |-> "", out |-> <<>>, err |-> NoError]

\* trimLines has not been called.
NoTrim == [s |-> <<>>, n |-> 0, once |-> <<>>, twice |-> <<>>, pc |-> "idle"]

\* newModel(): the state after construction.
newModel ==
    [cursor |-> 1, status |-> <<"Ready">>, lastOutput |-> <<>>,
     loading |-> FALSE, err |-> NoError, cancelFunc |-> 0]

----------------------------------------------------------------------------
\* Inputs: what the external processes can print, and how they can end.

Outputs ==
    { <<"active">>,
      <<"loaded", "\n", "active", "\n">> }

\* What a command that fails or is killed has printed by then.
FailureOutputs ==
    { <<"Failed", "\n">> }

ProbeOutputs ==
    { <<"enabled", "\n">>,
      <<"disabled", "\n">>,
      <<"enabled-runtime", "\n">>,
      <<>> }

ActionKeys == {"enter", "r", " ", "l"}
NavKeys == {"up", "down"}
EvalOrders == {"callFirst", "operandFirst"}

----------------------------------------------------------------------------
\* Pure helpers.

Min(a, b) == IF a < b THEN a ELSE b
Max(a, b) == IF a > b THEN a ELSE b

\* strings.HasSuffix
HasSuffix(s, suffix) ==
    /\ Len(s) >= Len(suffix)
    /\ SubSeq(s, Len(s) - Len(suffix) + 1, Len(s)) = suffix

IsSpace(c) == c \in {" ", "\n", "\t"}

\* strings.TrimSpace
RECURSIVE TrimLeft(_)
TrimLeft(s) ==
    IF s # <<>> /\ IsSpace(Head(s)) THEN TrimLeft(Tail(s)) ELSE s

RECURSIVE TrimRight(_)
TrimRight(s) ==
    IF s # <<>> /\ IsSpace(s[Len(s)])
    THEN TrimRight(SubSeq(s, 1, Len(s) - 1))
    ELSE s

TrimSpace(s) == TrimRight(TrimLeft(s))

\* strings.IndexByte(s, '\n'), 1-based; 0 when there is none
IndexNewline(s) ==
    IF \E i \in 1..Len(s) : s[i] = "\n"
    THEN CHOOSE i \in 1..Len(s) :
            /\ s[i] = "\n"
            /\ \A j \in 1..(i - 1) : s[j] # "\n"
    ELSE 0

\* firstLine cutting after the newline instead of before it.
firstLineWithNewline(s) ==
    IF IndexNewline(s) > 0 THEN SubSeq(s, 1, IndexNewline(s)) ELSE s

firstLine(s) ==
    IF IndexNewline(s) > 0 THEN SubSeq(s, 1, IndexNewline(s) - 1) ELSE s

\* strings.Split(s, "\n"): the pieces between the newlines, one more than
\* there are newlines; <<"">> for the empty text.
RECURSIVE Split(_)
Split(s) ==
    IF IndexNewline(s) = 0
    THEN <<s>>
    ELSE <<SubSeq(s, 1, IndexNewline(s) - 1)>>
         \o Split(SubSeq(s, IndexNewline(s) + 1, Len(s)))

\* strings.Join(lines, "\n")
RECURSIVE Join(_)
Join(lines) ==
    IF lines = <<>> THEN <<>>
    ELSE IF Len(lines) = 1 THEN lines[1]
    ELSE lines[1] \o <<"\n">> \o Join(Tail(lines))

\* trimLines ending its result with a newline.
trimLinesNewline(s, n) ==
    LET lines == Split(s)
    IN  Join(IF Len(lines) > n
             THEN SubSeq(lines, Len(lines) - n + 1, Len(lines))
             ELSE lines) \o <<"\n">>

trimLines(s, n) ==
    LET lines == Split(s)
    IN  Join(IF Len(lines) > n
             THEN SubSeq(lines, Len(lines) - n + 1, Len(lines))
             ELSE lines)

----------------------------------------------------------------------------
\* asyncRun: the part that runs synchronously inside Update, on the local
\* copy of the model (pointer receiver).  id names the new context.
asyncRun(mm, tag, unit, id) ==
    [mm EXCEPT !.cancelFunc = id,
               !.loading = TRUE,
               !.status = <<tag, " ">> \o unit]

\* `return m, m.asyncRun(..)`: the first operand is the variable the call
\* mutates, and the language leaves the order of the two unspecified.
ReturnedModel(before, after) ==
    IF evalOrder = "operandFirst" THEN before ELSE after

\* ActionTag with the space key mapped to toggle for every unit.
ActionTagAlwaysToggle(key, unit) ==
    CASE key = "enter" -> "status"
      [] key = "r" -> "start"
      [] key = " " -> "toggle"
      [] key = "l" -> "logs"

\* The tag chosen by an action key for the selected item.
ActionTag(key, unit) ==
    CASE key = "enter" -> "status"
      [] key = "r" -> "start"
      [] key = " " -> IF HasSuffix(unit, <<".timer">>) THEN "toggle" ELSE "enable"
      [] key = "l" -> "logs"

\* Command with the probe's output compared as printed, not trimmed.
CommandNoTrim(tag, unit, stateOut) ==
    CASE tag = "status" -> <<"systemctl", "status", "--no-pager">> \o unit
      [] tag = "start" -> <<"systemctl", "start">> \o unit
      [] tag = "toggle" ->
            IF stateOut = <<"enabled">>
            THEN <<"systemctl", "disable", "--now">> \o unit
            ELSE <<"systemctl", "enable", "--now">> \o unit
      [] tag = "enable" -> <<"systemctl", "enable", "--now">> \o unit
      [] tag = "logs" -> <<"journalctl", "-u">> \o unit \o <<"-n", "50", "--no-pager">>
      [] OTHER -> <<>>

\* The command line the background task builds; <<>> for an unknown tag.
Command(tag, unit, stateOut) ==
    CASE tag = "status" -> <<"systemctl", "status", "--no-pager">> \o unit
      [] tag = "start" -> <<"systemctl", "start">> \o unit
      [] tag = "toggle" ->
            IF TrimSpace(stateOut) = <<"enabled">>
            THEN <<"systemctl", "disable", "--now">> \o unit
            ELSE <<"systemctl", "enable", "--now">> \o unit
      [] tag = "enable" -> <<"systemctl", "enable", "--now">> \o unit
      [] tag = "logs" -> <<"journalctl", "-u">> \o unit \o <<"-n", "50", "--no-pager">>
      [] OTHER -> <<>>

outputMsg(tag, out) == [type |-> "output", tag |-> tag, out |-> out, err |-> NoError]
errMsg(err) == [type |-> "err", tag |-> "", out |-> <<>>, err |-> err]

\* Report for a task that hands over a message on the failure path and again
\* at its end (a missing return).
ReportTwice(op, msg) ==
    [op EXCEPT !.pc = "sent", !.msg = msg, !.sent = @ + 2]

\* A background task returns its message: it is handed to the event loop.
Report(op, msg) ==
    [op EXCEPT !.pc = "sent", !.msg = msg, !.sent = @ + 1]

\* The record of a task whose command function has not started yet.
NewOp(key, tag, unit) ==
    [key |-> key, tag |-> tag, unit |-> unit, pc |-> "new", cancelBy |-> "none",
     probe |-> <<>>, cmd |-> <<>>, captured |-> <<>>, msg |-> NoMsg, sent |-> 0]

----------------------------------------------------------------------------
\* Update, one operator per case.  Each yields the model returned, the
\* context whose cancel function was invoked (0: none) and the command.
\* m.spin is left out: spinner.Update reacts only to the spinner's own tick
\* message, which this program never issues, so no case changes it.

UpdateQuitKey(mm) ==
    [model |-> mm, cancel |-> mm.cancelFunc, cmd |-> "quit"]

UpdateActionKey(mm, key, id) ==
    LET selected == items[mm.cursor]
        tag == ActionTag(key, selected)
    IN  [model |-> ReturnedModel(mm, asyncRun(mm, tag, selected, id)),
         cancel |-> 0, cmd |-> "run"]

\* UpdateNavKey that also takes the model out of the busy state.
UpdateNavKeyClearsBusy(mm, key) ==
    [model |-> [mm EXCEPT !.cursor = IF key = "up"
                                     THEN Max(@ - 1, 1)
                                     ELSE Min(@ + 1, Len(items)),
                          !.loading = FALSE,
                          !.status = <<>>],
     cancel |-> 0, cmd |-> "batch"]

\* list.Update for a navigation key: the cursor moves within the items.
UpdateNavKey(mm, key) ==
    [model |-> [mm EXCEPT !.cursor = IF key = "up"
                                     THEN Max(@ - 1, 1)
                                     ELSE Min(@ + 1, Len(items))],
     cancel |-> 0, cmd |-> "batch"]

\* UpdateOutputMsg keeping only the first line of the output.
UpdateOutputMsgFirstLineOnly(mm, msg) ==
    [model |-> [mm EXCEPT !.loading = FALSE,
                          !.status = <<"[", msg.tag, "]", " ">> \o firstLine(msg.out),
                          !.lastOutput = firstLine(msg.out)],
     cancel |-> mm.cancelFunc, cmd |-> "batch"]

UpdateOutputMsg(mm, msg) ==
    [model |-> [mm EXCEPT !.loading = FALSE,
                          !.status = <<"[", msg.tag, "]", " ">> \o firstLine(msg.out),
                          !.lastOutput = msg.out],
     cancel |-> mm.cancelFunc, cmd |-> "batch"]

\* UpdateErrMsg treating a failure as fatal: it returns tea.Quit.
UpdateErrMsgQuits(mm, msg) ==
    [model |-> [mm EXCEPT !.loading = FALSE,
                          !.err = msg.err,
                          !.status = <<"Error: ", msg.err>>],
     cancel |-> mm.cancelFunc, cmd |-> "quit"]

\* UpdateErrMsg that leaves the model loading.
UpdateErrMsgKeepsLoading(mm, msg) ==
    [model |-> [mm EXCEPT !.err = msg.err,
                          !.status = <<"Error: ", msg.err>>],
     cancel |-> mm.cancelFunc, cmd |-> "batch"]

UpdateErrMsg(mm, msg) ==
    [model |-> [mm EXCEPT !.loading = FALSE,
                          !.err = msg.err,
                          !.status = <<"Error: ", msg.err>>],
     cancel |-> mm.cancelFunc, cmd |-> "batch"]

UpdateTickMsg(mm) ==
    [model |-> mm, cancel |-> 0, cmd |-> "tick"]

\* context.CancelFunc: the first call cancels the context, later calls do nothing.
Cancelled(os, id, by) ==
    IF id \in 1..Len(os) /\ os[id].cancelBy = "none"
    THEN [os EXCEPT ![id].cancelBy = by]
    ELSE os

----------------------------------------------------------------------------
Init ==
    /\ m = newModel
    /\ ops = <<>>
    /\ evalOrder \in EvalOrders
    /\ quitKey = FALSE
    /\ quitCmd = FALSE
    /\ running = TRUE
    /\ tickStreams = 0
    /\ idleTick = FALSE
    /\ trim = NoTrim

\* Key "q" or "ctrl+c".
KeyQuit ==
    /\ running
    /\ LET r == UpdateQuitKey(m)
       IN  /\ m' = r.model
           /\ ops' = Cancelled(ops, r.cancel, "quit")
           /\ quitCmd' = (quitCmd \/ r.cmd = "quit")
    /\ quitKey' = TRUE
    /\ UNCHANGED <<evalOrder, running, tickStreams, idleTick, trim>>

\* Key enter, r, space or l: a new background task and a new tick stream.
KeyAction(key) ==
    /\ running
    /\ Len(ops) < MaxOps
    /\ LET id == Len(ops) + 1
           selected == items[m.cursor]
           r == UpdateActionKey(m, key, id)
       IN  /\ m' = r.model
           /\ ops' = Append(ops, NewOp(key, ActionTag(key, selected), selected))
           /\ quitCmd' = (quitCmd \/ r.cmd = "quit")
    /\ tickStreams' = tickStreams + 1
    /\ idleTick' = FALSE
    /\ UNCHANGED <<evalOrder, quitKey, running, trim>>

\* Any other key the list understands.
KeyNav(key) ==
    /\ running
    /\ LET r == UpdateNavKey(m, key)
       IN  /\ m' = r.model
           /\ quitCmd' = (quitCmd \/ r.cmd = "quit")
    /\ UNCHANGED <<ops, evalOrder, quitKey, running, tickStreams, idleTick, trim>>

\* TaskStart for a task that reads the selection when it starts instead of
\* using the unit it was dispatched with.
TaskStartSelectedNow(i) ==
    /\ running
    /\ ops[i].pc = "new"
    /\ \E stateOut \in (IF ops[i].tag = "toggle" THEN ProbeOutputs ELSE {<<>>}),
          spawned \in BOOLEAN :
          LET cmd == Command(ops[i].tag, items[m.cursor], stateOut)
              op == [ops[i] EXCEPT !.probe = stateOut, !.cmd = cmd]
          IN  ops' = [ops EXCEPT ![i] =
                        IF cmd = <<>>
                        THEN Report(op, errMsg("unknown action"))
                        ELSE IF op.cancelBy # "none"
                        THEN Report(op, errMsg("context canceled"))
                        ELSE IF ~spawned
                        THEN Report(op, errMsg("fork/exec: resource temporarily unavailable"))
                        ELSE [op EXCEPT !.pc = "running"]]
    /\ UNCHANGED <<m, evalOrder, quitKey, quitCmd, running, tickStreams, idleTick, trim>>

\* The command function of task i starts: the probe (toggle only), the
\* command line, then cmd.Run up to the point where the process is started.
TaskStart(i) ==
    /\ running
    /\ ops[i].pc = "new"
    /\ \E stateOut \in (IF ops[i].tag = "toggle" THEN ProbeOutputs ELSE {<<>>}),
          spawned \in BOOLEAN :
          LET cmd == Command(ops[i].tag, ops[i].unit, stateOut)
              op == [ops[i] EXCEPT !.probe = stateOut, !.cmd = cmd]
          IN  ops' = [ops EXCEPT ![i] =
                        IF cmd = <<>>
                        THEN Report(op, errMsg("unknown action"))
                        ELSE IF op.cancelBy # "none"
                        THEN Report(op, errMsg("context canceled"))
                        ELSE IF ~spawned
                        THEN Report(op, errMsg("fork/exec: resource temporarily unavailable"))
                        ELSE [op EXCEPT !.pc = "running"]]
    /\ UNCHANGED <<m, evalOrder, quitKey, quitCmd, running, tickStreams, idleTick, trim>>

\* TaskExit for a task whose function writes the output into the model it
\* was started from, instead of only returning it in a message.
TaskExitWritesModel(i) ==
    /\ running
    /\ ops[i].pc = "running"
    /\ \E how \in {"ok", "failed"} \cup
                  (IF ops[i].cancelBy # "none" THEN {"killed"} ELSE {}) :
       \E out \in (IF how = "ok" THEN Outputs ELSE FailureOutputs) :
          LET op == [ops[i] EXCEPT !.captured = out]
          IN  /\ ops' = [ops EXCEPT ![i] =
                        CASE how = "ok" -> Report(op, outputMsg(op.tag, out))
                          [] how = "failed" -> Report(op, errMsg("exit status 1"))
                          [] how = "killed" -> Report(op, errMsg("signal: killed"))]
              /\ m' = [m EXCEPT !.lastOutput = out]
    /\ UNCHANGED <<evalOrder, quitKey, quitCmd, running, tickStreams, idleTick, trim>>

\* The process of task i ends; cmd.Run returns and the task reports.
TaskExit(i) ==
    /\ running
    /\ ops[i].pc = "running"
    /\ \E how \in {"ok", "failed"} \cup
                  (IF ops[i].cancelBy # "none" THEN {"killed"} ELSE {}) :
       \E out \in (IF how = "ok" THEN Outputs ELSE FailureOutputs) :
          LET op == [ops[i] EXCEPT !.captured = out]
          IN  ops' = [ops EXCEPT ![i] =
                        CASE how = "ok" -> Report(op, outputMsg(op.tag, out))
                          [] how = "failed" -> Report(op, errMsg("exit status 1"))
                          [] how = "killed" -> Report(op, errMsg("signal: killed"))]
    /\ UNCHANGED <<m, evalOrder, quitKey, quitCmd, running, tickStreams, idleTick, trim>>

\* The event loop takes the message of task i and calls Update with it.
Consume(i) ==
    /\ running
    /\ ops[i].pc = "sent"
    /\ LET msg == ops[i].msg
           r == IF msg.type = "output"
                THEN UpdateOutputMsg(m, msg)
                ELSE UpdateErrMsg(m, msg)
           by == IF r.cancel = i THEN "own" ELSE "other"
       IN  /\ m' = r.model
           /\ ops' = Cancelled([ops EXCEPT ![i].pc = "consumed"], r.cancel, by)
           /\ quitCmd' = (quitCmd \/ r.cmd = "quit")
    /\ UNCHANGED <<evalOrder, quitKey, running, tickStreams, idleTick, trim>>

\* A tickMsg is consumed: Update schedules the next one (tea.Tick) whatever
\* the state, and nothing else of the model changes (the spinner ignores this
\* message).
Tick ==
    /\ running
    /\ tickStreams > 0
    /\ LET r == UpdateTickMsg(m)
       IN  /\ m' = r.model
           /\ quitCmd' = (quitCmd \/ r.cmd = "quit")
           /\ tickStreams' = (tickStreams - 1) + (IF r.cmd = "tick" THEN 1 ELSE 0)
           /\ idleTick' = (idleTick \/ (r.cmd = "tick" /\ ~r.model.loading))
    /\ UNCHANGED <<ops, evalOrder, quitKey, running, trim>>

\* The message of tea.Quit reaches the event loop, which returns.
QuitMsg ==
    /\ running
    /\ quitCmd
    /\ running' = FALSE
    /\ UNCHANGED <<m, ops, evalOrder, quitKey, quitCmd, tickStreams, idleTick, trim>>

Next ==
    \/ KeyQuit
    \/ \E key \in ActionKeys : KeyAction(key)
    \/ \E key \in NavKeys : KeyNav(key)
    \/ \E i \in 1..Len(ops) : TaskStart(i)
    \/ \E i \in 1..Len(ops) : TaskExit(i)
    \/ \E i \in 1..Len(ops) : Consume(i)
    \/ Tick
    \/ QuitMsg

Spec == Init /\ [][Next]_vars

\* The behaviours of a build that evaluates the call before the operand, so
\* that the model returned by an action key carries asyncRun's assignments.
InitCallFirst ==
    /\ Init
    /\ evalOrder = "callFirst"

SpecCallFirst == InitCallFirst /\ [][Next]_vars

\* The program while no quit key is pressed, with the scheduling the claims
\* about termination of operations assume: a task that can take its next
\* step (start its process, see it exit and report) eventually does, and the
\* loop eventually handles a result that was sent.
NextNoQuit ==
    \/ \E key \in ActionKeys : KeyAction(key)
    \/ \E key \in NavKeys : KeyNav(key)
    \/ \E i \in 1..Len(ops) : TaskStart(i)
    \/ \E i \in 1..Len(ops) : TaskExit(i)
    \/ \E i \in 1..Len(ops) : Consume(i)
    \/ Tick

Fairness ==
    /\ WF_vars(\E i \in 1..Len(ops) : TaskStart(i))
    /\ WF_vars(\E i \in 1..Len(ops) : TaskExit(i))
    /\ WF_vars(\E i \in 1..Len(ops) : Consume(i))

FairSpec == Init /\ [][NextNoQuit]_vars /\ Fairness

----------------------------------------------------------------------------
\* trimLines on its own.  The texts are all the token sequences over a word
\* and the newline up to MaxLen tokens, with every n up to MaxN, and what
\* journalctl prints for about ViewLines entries, with View's n.

Texts == UNION {[1..k -> {"a", "\n"}] : k \in 0..MaxLen}

\* k lines, each ended by a newline, the last one only if terminated.
Journal(k, terminated) ==
    [i \in 1..(IF terminated \/ k = 0 THEN 2 * k ELSE 2 * k - 1) |->
        IF i % 2 = 1 THEN "entry" ELSE "\n"]

JournalTexts ==
    {Journal(k, t) : k \in (ViewLines - 1)..(ViewLines + 2), t \in BOOLEAN}

TrimInit ==
    /\ m = newModel
    /\ ops = <<>>
    /\ evalOrder = "callFirst"
    /\ quitKey = FALSE
    /\ quitCmd = FALSE
    /\ running = TRUE
    /\ tickStreams = 0
    /\ idleTick = FALSE
    /\ \/ \E s \in Texts, n \in 0..MaxN :
             trim = [NoTrim EXCEPT !.s = s, !.n = n]
       \/ \E s \in JournalTexts :
             trim = [NoTrim EXCEPT !.s = s, !.n = ViewLines]

\* trimLines(s, n)
TrimOnce ==
    /\ trim.pc = "idle"
    /\ trim' = [trim EXCEPT !.once = trimLines(trim.s, trim.n), !.pc = "once"]
    /\ UNCHANGED <<m, ops, evalOrder, quitKey, quitCmd, running, tickStreams, idleTick>>

\* trimLines(trimLines(s, n), n)
TrimTwice ==
    /\ trim.pc = "once"
    /\ trim' = [trim EXCEPT !.twice = trimLines(trim.once, trim.n), !.pc = "twice"]
    /\ UNCHANGED <<m, ops, evalOrder, quitKey, quitCmd, running, tickStreams, idleTick>>

TrimNext ==
    \/ TrimOnce
    \/ TrimTwice

TrimSpec == TrimInit /\ [][TrimNext]_vars

----------------------------------------------------------------------------
\* Vocabulary of the properties.

\* The most recently dispatched operation (0 when there is none).
Latest == Len(ops)

\* This step is the event loop consuming the result of task i.
ConsumeStep(i) == ops[i].pc = "sent" /\ ops'[i].pc = "consumed"

\* This step is Update handling an action key (a task was created).
DispatchStep == Len(ops') = Len(ops) + 1

\* The fields of the model that present an operation's outcome.
Shown(mm) == <<mm.loading, mm.status, mm.lastOutput, mm.err>>

----------------------------------------------------------------------------
\* C1: the result of an operation that was abandoned (a newer operation was
\* dispatched before the result was consumed) is discarded: consuming it
\* leaves loading, status, last output and last error unchanged.  (Stated
\* for the loop before any quit key, like C2, C5, C6 and C9.)
C1_StaleResultDiscarded ==
    [][\A i \in 1..Len(ops) :
          (ConsumeStep(i) /\ i < Latest /\ ~quitKey) => Shown(m') = Shown(m)]_vars

\* C2: the model adopted after an action key has loading = TRUE and the
\* status "<action> <unit>", while the task has not even started.
C2_DispatchShowsBusy ==
    [][(DispatchStep /\ ~quitKey) =>
          LET op == ops'[Len(ops')]
          IN  /\ op.pc = "new"
              /\ m'.loading
              /\ m'.status # <<>>
              /\ m'.status = <<op.tag, " ">> \o op.unit]_vars

\* C3: consuming the successful result of the pending operation (no newer
\* one was dispatched) clears loading and stores everything the command
\* printed as the last output.
C3_SuccessStoresFullOutput ==
    [][\A i \in 1..Len(ops) :
          (ConsumeStep(i) /\ i = Latest /\ ops[i].msg.type = "output")
          => /\ m'.loading = FALSE
             /\ m'.lastOutput = ops[i].captured]_vars

C3_Witness ==
    /\ Latest = 2
    /\ ops[2].pc = "consumed"
    /\ ops[2].msg.type = "output"
    /\ Len(ops[2].captured) > 1
    /\ ops[1].pc = "running"
    /\ m.lastOutput = ops[2].captured
    /\ ~m.loading

\* C4: a quit key is accepted in every state, invokes the cancellation
\* handle of the pending operation if there is one, and is terminal: no
\* event handled after it changes the application state.
C4_QuitTerminal ==
    [][/\ (~quitKey /\ quitKey' /\ Latest > 0 /\ ops[Latest].pc # "consumed")
             => ops'[Latest].cancelBy # "none"
       /\ quitKey => m' = m]_vars

\* C5: an action key replaces the tracked handle by the handle of the new
\* operation, without invoking any earlier handle and whatever the state of
\* the earlier operations.
C5_DispatchReplacesHandle ==
    [][(DispatchStep /\ ~quitKey) =>
          /\ m'.cancelFunc = Len(ops')
          /\ \A i \in 1..Len(ops) : ops'[i] = ops[i]]_vars

\* C6: loading is true exactly when the result of the most recently
\* dispatched operation has not been consumed yet.
C6_LoadingIffPending ==
    ~quitKey => (m.loading <=> (Latest > 0 /\ ops[Latest].pc # "consumed"))

\* C7: a background task reports exactly once: never more than one message,
\* exactly one once its function has returned, and that message is either a
\* completion carrying the captured output or a failure carrying an error.
C7_ReportsExactlyOnce ==
    \A i \in 1..Len(ops) :
        /\ ops[i].sent <= 1
        /\ (ops[i].pc \in {"sent", "consumed"}) <=> (ops[i].sent = 1)
        /\ (ops[i].sent = 0) <=> (ops[i].msg = NoMsg)
        /\ ops[i].sent = 1 =>
              \/ /\ ops[i].msg.type = "output"
                 /\ ops[i].msg.err = NoError
                 /\ ops[i].msg.out = ops[i].captured
              \/ /\ ops[i].msg.type = "err"
                 /\ ops[i].msg.err # NoError
                 /\ ops[i].msg.out = <<>>

C7_Witness ==
    /\ Latest = 2
    /\ ops[1].sent = 1 /\ ops[1].msg.type = "err" /\ ops[1].cancelBy # "none"
    /\ ops[2].sent = 1 /\ ops[2].msg.type = "output" /\ ops[2].tag = "toggle"

\* The two command lines of a toggle.
DisablePath(unit) == <<"systemctl", "disable", "--now">> \o unit
EnablePath(unit) == <<"systemctl", "enable", "--now">> \o unit

\* C8: a toggle runs the disable path when the probe printed "enabled"
\* (surrounding white space aside) and the enable path for every other
\* probe outcome, empty output and a failed probe included.
C8_ToggleFollowsProbe ==
    \A i \in 1..Len(ops) :
        (ops[i].tag = "toggle" /\ ops[i].pc # "new") =>
            ops[i].cmd = IF ops[i].probe \in {<<"enabled">>, <<"enabled", "\n">>}
                         THEN DisablePath(ops[i].unit)
                         ELSE EnablePath(ops[i].unit)

C8_Witness ==
    /\ Latest = 2
    /\ ops[1].tag = "toggle" /\ ops[1].probe = <<"enabled", "\n">>
    /\ ops[1].cmd = DisablePath(timerName) /\ ops[1].pc = "running"
    /\ ops[2].tag = "toggle" /\ ops[2].probe = <<>>
    /\ ops[2].cmd = EnablePath(timerName) /\ ops[2].pc = "running"

\* C9: consuming the failure of the pending command clears loading, puts
\* the error text in the status and stores what the failed command printed
\* as the last output.
C9_FailureStoresOutput ==
    [][\A i \in 1..Len(ops) :
          (ConsumeStep(i) /\ i = Latest /\ ops[i].msg.type = "err" /\ ~quitKey)
          => /\ m'.loading = FALSE
             /\ m'.status = <<"Error: ", ops[i].msg.err>>
             /\ m'.lastOutput = ops[i].captured]_vars

IsFirstLineOf(line, out) ==
    /\ Len(line) <= Len(out)
    /\ line = SubSeq(out, 1, Len(line))
    /\ \A k \in 1..Len(line) : line[k] # "\n"
    /\ Len(line) = Len(out) \/ out[Len(line) + 1] = "\n"

\* C11 as claimed: after the result of a successful command is consumed the
\* status is the first line of what the command printed.
C11_StatusIsFirstLine ==
    [][\A i \in 1..Len(ops) :
          (ConsumeStep(i) /\ i = Latest /\ ops[i].msg.type = "output" /\ ~quitKey)
          => IsFirstLineOf(m'.status, ops[i].captured)]_vars

\* C11 as amended: the status is "[<tag>] " followed by the first line of
\* what the command printed.
C11_StatusIsTaggedFirstLine ==
    [][\A i \in 1..Len(ops) :
          (ConsumeStep(i) /\ ops[i].msg.type = "output")
          => /\ Len(m'.status) >= 4
             /\ SubSeq(m'.status, 1, 4) = <<"[", ops[i].tag, "]", " ">>
             /\ IsFirstLineOf(SubSeq(m'.status, 5, Len(m'.status)),
                              ops[i].captured)]_vars

C11_Witness ==
    /\ Latest = 1
    /\ ops[1].pc = "consumed"
    /\ ops[1].tag = "toggle"
    /\ ops[1].cmd = EnablePath(timerName)
    /\ ops[1].captured = <<"loaded", "\n", "active", "\n">>
    /\ m.status = <<"[", "toggle", "]", " ", "loaded">>

\* C12: the tick stream stops when the result is consumed: once the model
\* is not loading, Update schedules no further tick until an action key.
C12_NoTickWhileIdle ==
    ~quitKey => ~idleTick

\* This step is a step of the background task i (its function starts the
\* process, or the process ends and the function returns its message).
TaskStep(i) == ops[i].pc \in {"new", "running"} /\ ops'[i].pc # ops[i].pc

\* This step is one call of Update by the event loop: a key, the result of
\* one task, or the message of tea.Quit.
LoopStep ==
    \/ DispatchStep
    \/ quitKey' # quitKey
    \/ running' # running
    \/ m'.cursor # m.cursor
    \/ idleTick' # idleTick
    \/ \E i \in 1..Len(ops) : ConsumeStep(i)

\* C13: the application state changes only in steps of the event loop; a
\* step of a background task leaves it alone, cancels nothing, and touches
\* no other task: all it does is produce its own result message.
C13_OnlyLoopChangesState ==
    [][/\ \A i \in 1..Len(ops) :
             TaskStep(i) =>
                /\ m' = m
                /\ Len(ops') = Len(ops)
                /\ \A j \in 1..Len(ops) : j # i => ops'[j] = ops[j]
                /\ ops'[i].cancelBy = ops[i].cancelBy
                /\ <<quitKey, quitCmd, running>>' = <<quitKey, quitCmd, running>>
       /\ m' # m => LoopStep]_vars

C13_Witness ==
    /\ Latest = 2
    /\ ops[1].pc = "sent" /\ ops[1].msg.type = "output"
    /\ ops[2].pc = "sent" /\ ops[2].msg.type = "err"
    /\ m.loading
    /\ m.lastOutput = <<>>
    /\ m.err = NoError
    /\ m.status = <<ops[2].tag, " ">> \o ops[2].unit

\* C14: a navigation key is handled whether or not the model is loading and
\* changes the selection only: loading, status, last output, last error and
\* the cancellation handle stay, no task is created, none is cancelled, and
\* the loop is not asked to end.
C14_NavigationFrame ==
    /\ [](running => \A key \in NavKeys : ENABLED KeyNav(key))
    /\ [][m'.cursor # m.cursor =>
             /\ Shown(m') = Shown(m)
             /\ m'.cancelFunc = m.cancelFunc
             /\ ops' = ops
             /\ <<quitKey, quitCmd, running, tickStreams>>' =
                   <<quitKey, quitCmd, running, tickStreams>>]_vars

C14_Witness ==
    /\ Latest = 1
    /\ ops[1].unit = timerName
    /\ ops[1].pc = "running" /\ ops[1].cancelBy = "none"
    /\ m.cursor = 2
    /\ m.loading /\ m.cancelFunc = 1
    /\ running /\ ~quitKey

StartCommand(unit) == <<"systemctl", "start">> \o unit

\* Operation i was dispatched by the space key and its command line is built.
SpaceOp(i) == ops[i].key = " " /\ ops[i].pc # "new"

\* C15 as claimed: space on the timer unit toggles (probe, then the enable or
\* the disable path); space on the service unit runs the start command of
\* the r key.
C15_SpaceRunsServiceNow ==
    \A i \in 1..Len(ops) :
        SpaceOp(i) =>
            IF HasSuffix(ops[i].unit, <<".timer">>)
            THEN ops[i].tag = "toggle"
                 /\ ops[i].cmd \in {EnablePath(ops[i].unit), DisablePath(ops[i].unit)}
            ELSE ops[i].cmd = StartCommand(ops[i].unit)

\* C15 as amended: space on the timer unit toggles; space on the service
\* unit runs the enable path, without a probe, and never the start command.
C15_SpaceEnablesService ==
    \A i \in 1..Len(ops) :
        SpaceOp(i) =>
            IF HasSuffix(ops[i].unit, <<".timer">>)
            THEN ops[i].tag = "toggle"
                 /\ ops[i].cmd \in {EnablePath(ops[i].unit), DisablePath(ops[i].unit)}
            ELSE /\ ops[i].tag = "enable"
                 /\ ops[i].probe = <<>>
                 /\ ops[i].cmd = EnablePath(ops[i].unit)

C15_Witness ==
    /\ Latest = 2
    /\ ops[1].key = " " /\ ops[1].unit = timerName
    /\ ops[1].cmd = DisablePath(timerName)
    /\ ops[2].key = " " /\ ops[2].unit = serviceName
    /\ ops[2].cmd = EnablePath(serviceName)
    /\ ops[2].pc = "sent"

\* The command line of a statically mapped key for a unit.
StaticCommand(key, unit) ==
    CASE key = "enter" -> <<"systemctl", "status", "--no-pager">> \o unit
      [] key = "r" -> <<"systemctl", "start">> \o unit
      [] key = "l" -> <<"journalctl", "-u">> \o unit \o <<"-n", "50", "--no-pager">>

\* C16: for enter, r and l the command line is the status query, the start
\* command and the log query with -n 50, for the unit that was selected when
\* the key was pressed; neither the unit nor the command line of an
\* operation changes afterwards, wherever the selection moves.
C16_StaticCommands ==
    /\ [](\A i \in 1..Len(ops) :
            (ops[i].key \in {"enter", "r", "l"} /\ ops[i].pc # "new")
            => ops[i].cmd = StaticCommand(ops[i].key, ops[i].unit))
    /\ [][DispatchStep => ops'[Len(ops')].unit = items[m.cursor]]_vars
    /\ [][\A i \in 1..Len(ops) :
             /\ ops'[i].key = ops[i].key
             /\ ops'[i].unit = ops[i].unit
             /\ ops[i].pc # "new" => ops'[i].cmd = ops[i].cmd]_vars

C16_Witness ==
    /\ Latest = 2
    /\ ops[1].key = "l" /\ ops[1].unit = timerName
    /\ ops[1].cmd = <<"journalctl", "-u">> \o timerName \o <<"-n", "50", "--no-pager">>
    /\ ops[1].pc = "sent" /\ ops[1].msg.type = "output"
    /\ ops[2].key = "enter" /\ ops[2].unit = serviceName
    /\ ops[2].cmd = <<"systemctl", "status", "--no-pager">> \o serviceName
    /\ ops[2].pc = "running"
    /\ m.cursor = 1

\* The number of lines of a text: one per newline, and one more for a last
\* line that is not ended by a newline.
LineCount(t) ==
    Cardinality({k \in 1..Len(t) : t[k] = "\n"})
    + (IF t # <<>> /\ t[Len(t)] # "\n" THEN 1 ELSE 0)

\* The last n lines of s (all of s when it has no more than n): the longest
\* suffix of s that starts where a line starts and has at most n lines.
LastLines(s, n) ==
    LET starts == {1, Len(s) + 1} \cup {k + 1 : k \in {j \in 1..Len(s) : s[j] = "\n"}}
        fits == {p \in starts : LineCount(SubSeq(s, p, Len(s))) <= n}
        first == CHOOSE p \in fits : \A q \in fits : p <= q
    IN  SubSeq(s, first, Len(s))

\* t without the newline that ends it, if one does.
Chomp(t) ==
    IF t # <<>> /\ t[Len(t)] = "\n" THEN SubSeq(t, 1, Len(t) - 1) ELSE t

\* C17: trimLines(s, n) is the last n lines of s, or all of s when it has
\* fewer, with or without the newline that ends the last of them; this
\* includes a text that ends with a newline, and View's n.
C17_TrimKeepsLastLines ==
    trim.pc # "idle" =>
        trim.once \in {LastLines(trim.s, trim.n), Chomp(LastLines(trim.s, trim.n))}

\* C18: trimLines is idempotent in its text argument:
\* trimLines(trimLines(s, n), n) = trimLines(s, n) for every s and n >= 0.
C18_TrimIdempotent ==
    trim.pc = "twice" => trim.twice = trim.once

C18_Witness ==
    /\ trim.pc = "twice"
    /\ trim.n = 2
    /\ trim.once # <<>>
    /\ Len(trim.once) < Len(trim.s)
    /\ trim.s[Len(trim.s)] = "\n"
    /\ trim.twice = trim.once

\* C19: the cancellation handle of an operation is invoked only by a quit
\* key or when that operation's own result is consumed, never when the
\* result of another operation is consumed.
C19_CancelOnlyByQuitOrOwnResult ==
    ~quitKey => \A i \in 1..Len(ops) : ops[i].cancelBy \in {"none", "quit", "own"}

\* C20: with no quit key, processes that exit and results that are consumed,
\* the model is eventually not loading for good once the action keys have
\* stopped, in whatever order the results of the operations arrive; and
\* loading turns true only in the step of an action key.
C20_BusyLeadsToIdle ==
    /\ <>[](~m.loading)
    /\ [][(~m.loading /\ m'.loading) => DispatchStep]_vars

C20_Witness ==
    /\ evalOrder = "callFirst"
    /\ Latest = 2
    /\ ops[1].pc = "consumed" /\ ops[1].msg.type = "output"
    /\ ops[2].pc = "consumed" /\ ops[2].cancelBy = "other"
    /\ ops[2].msg = errMsg("signal: killed")
    /\ ~m.loading
====
